---- MODULE Spec2Model ----
(***************************************************************************)
(* Model of demos/flask/flask_app.py: the medication name resolver         *)
(* (_med_name, _get_medication_by_ref, _get_med_name) and the four route   *)
(* handlers (index, callback, logout, reset) over the flask session.       *)
(*                                                                         *)
(* Python values are represented as follows.                               *)
(*   - an optional string is a string, with None the marker value None;    *)
(*   - an optional object is a record with a field null (TRUE for None);   *)
(*   - a reference string is a sequence of characters, so that the         *)
(*     '/' test and str.split are computed and not assumed.                *)
(* The fhirclient library is the environment: what its calls return or     *)
(* raise is chosen nondeterministically in the actions.                    *)
(***************************************************************************)
EXTENDS Integers, Sequences, FiniteSets, TLC

VARIABLES
    pc,             \* resolver: "start", "get_med_name" or "med_name"; routes: "idle"
    prescription,   \* resolver: the prescription argument
    smart_client,   \* resolver: the smart_client argument
    out,            \* resolver: what the call returned and did
    session,        \* the flask session entry 'state' (NoState when the key is absent)
    route,          \* the route of the last request handled
    request,        \* the last request's URL
    response,       \* the last response
    calls,          \* what the last request asked of the client handle
    world           \* what the library answered during the last call or request

vars ==
    <<pc, prescription, smart_client, out, session, route, request, response, calls,
      world>>

--------------------------------------------------------------------------
(* Bounds of the model *)

MaxCodings == 2     \* codings per coded concept
MaxRefLen == 3      \* characters per reference string
MaxPres == 2        \* prescriptions returned by one search

--------------------------------------------------------------------------
(* Values *)

None == "<None>"

Truthy(s) == s # None /\ s # ""

RXNORM == "http://www.nlm.nih.gov/research/umls/rxnorm"

Systems == {RXNORM, "http://snomed.info/sct"}

Displays == {None, "", "Aspirin", "Tylenol"}

Texts == {None, "", "Aspirin 81mg"}

SeqUpTo(S, n) == UNION {[1..k -> S] : k \in 0..n}

Coding == [system : Systems, display : Displays]

NoConcept == [null |-> TRUE, coding |-> <<>>, text |-> None]

Concept == [null : {FALSE}, coding : SeqUpTo(Coding, MaxCodings), text : Texts]

RefChars == {"m", "/"}

NoReference == [null |-> TRUE, reference |-> <<>>]

Reference == [null : {FALSE}, reference : SeqUpTo(RefChars, MaxRefLen)]

NoPrescription ==
    [null |-> TRUE, medicationCodeableConcept |-> NoConcept,
     medicationReference |-> NoReference]

Prescription ==
    [null : {FALSE},
     medicationCodeableConcept : Concept \cup {NoConcept},
     medicationReference : Reference \cup {NoReference}]

NoClient == [null |-> TRUE, server |-> FALSE]

Client == [null : {FALSE}, server : BOOLEAN]

\* What Medication.read does: it raises, or returns a resource whose code is
\* a coded concept or None.
ReadFails == [raises |-> TRUE, code |-> NoConcept]

Replies ==
    {ReadFails}
        \cup [raises : {FALSE}, code : Concept \cup {NoConcept}]

--------------------------------------------------------------------------
(* The resolver *)

Contains(s, ch) == \E i \in 1..Len(s) : s[i] = ch

RECURSIVE split(_, _)
split(s, sep) ==
    IF ~Contains(s, sep) THEN <<s>>
    ELSE LET k == CHOOSE i \in 1..Len(s) :
                      s[i] = sep /\ \A j \in 1..(i - 1) : s[j] # sep
         IN  <<SubSeq(s, 1, k - 1)>> \o split(SubSeq(s, k + 1, Len(s)), sep)

\* Variant: the read is not wrapped in try/except, so its exception leaves the
\* function.
_get_medication_by_ref_uncaught(ref, smart, reply) ==
    IF ref = <<>> \/ ~Contains(ref, "/")
    THEN [code |-> NoConcept, reads |-> <<>>, raised |-> FALSE]
    ELSE LET med_id == split(ref, "/")[2] IN
         IF ~smart.null /\ smart.server
         THEN IF reply.raises
              THEN [code |-> NoConcept, reads |-> <<med_id>>, raised |-> TRUE]
              ELSE [code |-> reply.code, reads |-> <<med_id>>, raised |-> FALSE]
         ELSE [code |-> NoConcept, reads |-> <<>>, raised |-> FALSE]

_get_medication_by_ref(ref, smart, reply) ==
    IF ref = <<>> \/ ~Contains(ref, "/")
    THEN [code |-> NoConcept, reads |-> <<>>, raised |-> FALSE]
    ELSE LET med_id == split(ref, "/")[2] IN
         IF ~smart.null /\ smart.server
         THEN IF reply.raises
              THEN [code |-> NoConcept, reads |-> <<med_id>>, raised |-> FALSE]
              ELSE [code |-> reply.code, reads |-> <<med_id>>, raised |-> FALSE]
         ELSE [code |-> NoConcept, reads |-> <<>>, raised |-> FALSE]

\* Variant: the system identifier is not compared.
RECURSIVE rxnorm_name_any_system(_)
rxnorm_name_any_system(coding) ==
    IF coding = <<>> THEN None
    ELSE IF Truthy(Head(coding).display)
         THEN Head(coding).display
         ELSE rxnorm_name_any_system(Tail(coding))

RECURSIVE rxnorm_name(_)
rxnorm_name(coding) ==
    IF coding = <<>> THEN None
    ELSE IF Head(coding).system = RXNORM /\ Truthy(Head(coding).display)
         THEN Head(coding).display
         ELSE rxnorm_name(Tail(coding))

\* Variant: only the first coding is looked at.
any_display_name_first_only(coding) ==
    IF coding = <<>> THEN None ELSE Head(coding).display

RECURSIVE any_display_name(_)
any_display_name(coding) ==
    IF coding = <<>> THEN None
    ELSE IF Truthy(Head(coding).display)
         THEN Head(coding).display
         ELSE any_display_name(Tail(coding))

\* Variant: the free text is returned without testing it.
_med_name_text_unchecked(med_code) ==
    IF med_code.null THEN "Medication data unavailable"
    ELSE IF med_code.coding # <<>> /\ Truthy(rxnorm_name(med_code.coding))
         THEN rxnorm_name(med_code.coding)
    ELSE IF med_code.coding # <<>> /\ Truthy(any_display_name(med_code.coding))
         THEN any_display_name(med_code.coding)
    ELSE med_code.text

\* Variant: the free text is never used.
_med_name_no_text(med_code) ==
    IF med_code.null THEN "Medication data unavailable"
    ELSE IF med_code.coding # <<>> /\ Truthy(rxnorm_name(med_code.coding))
         THEN rxnorm_name(med_code.coding)
    ELSE IF med_code.coding # <<>> /\ Truthy(any_display_name(med_code.coding))
         THEN any_display_name(med_code.coding)
    ELSE "Unnamed Medication"

_med_name(med_code) ==
    IF med_code.null THEN "Medication data unavailable"
    ELSE IF med_code.coding # <<>> /\ Truthy(rxnorm_name(med_code.coding))
         THEN rxnorm_name(med_code.coding)
    ELSE IF med_code.coding # <<>> /\ Truthy(any_display_name(med_code.coding))
         THEN any_display_name(med_code.coding)
    ELSE IF Truthy(med_code.text) THEN med_code.text
    ELSE "Unnamed Medication"

\* Variant: an inline concept with text and no codings is not returned early.
_get_med_name_no_shortcut(p, smart, reply) ==
    IF p.null
    THEN [name |-> "Invalid prescription data", med_code |-> NoConcept,
          reads |-> <<>>, selected |-> FALSE, raised |-> FALSE]
    ELSE IF ~p.medicationCodeableConcept.null
    THEN LET med_code == p.medicationCodeableConcept IN
         [name |-> _med_name(med_code), med_code |-> med_code,
          reads |-> <<>>, selected |-> TRUE, raised |-> FALSE]
    ELSE IF /\ ~p.medicationReference.null
            /\ p.medicationReference.reference # <<>>
            /\ ~smart.null
    THEN LET r == _get_medication_by_ref(p.medicationReference.reference, smart, reply) IN
         IF r.raised
         THEN [name |-> None, med_code |-> NoConcept,
               reads |-> r.reads, selected |-> FALSE, raised |-> TRUE]
         ELSE IF ~r.code.null
         THEN [name |-> _med_name(r.code), med_code |-> r.code,
               reads |-> r.reads, selected |-> TRUE, raised |-> FALSE]
         ELSE [name |-> "Error: medication details not found", med_code |-> NoConcept,
               reads |-> r.reads, selected |-> FALSE, raised |-> FALSE]
    ELSE [name |-> "Error: medication details not found", med_code |-> NoConcept,
          reads |-> <<>>, selected |-> FALSE, raised |-> FALSE]

\* Variant: a usable medication reference is looked up even when an inline
\* concept is present.
_get_med_name_reference_first(p, smart, reply) ==
    IF p.null
    THEN [name |-> "Invalid prescription data", med_code |-> NoConcept,
          reads |-> <<>>, selected |-> FALSE, raised |-> FALSE]
    ELSE IF /\ ~p.medicationCodeableConcept.null
            /\ ~(/\ ~p.medicationReference.null
                 /\ p.medicationReference.reference # <<>>
                 /\ ~smart.null)
    THEN LET med_code == p.medicationCodeableConcept IN
         IF med_code.coding = <<>> /\ Truthy(med_code.text)
         THEN [name |-> med_code.text, med_code |-> med_code,
               reads |-> <<>>, selected |-> FALSE, raised |-> FALSE]
         ELSE [name |-> _med_name(med_code), med_code |-> med_code,
               reads |-> <<>>, selected |-> TRUE, raised |-> FALSE]
    ELSE IF /\ ~p.medicationReference.null
            /\ p.medicationReference.reference # <<>>
            /\ ~smart.null
    THEN LET r == _get_medication_by_ref(p.medicationReference.reference, smart, reply) IN
         IF r.raised
         THEN [name |-> None, med_code |-> NoConcept,
               reads |-> r.reads, selected |-> FALSE, raised |-> TRUE]
         ELSE IF ~r.code.null
         THEN [name |-> _med_name(r.code), med_code |-> r.code,
               reads |-> r.reads, selected |-> TRUE, raised |-> FALSE]
         ELSE [name |-> "Error: medication details not found", med_code |-> NoConcept,
               reads |-> r.reads, selected |-> FALSE, raised |-> FALSE]
    ELSE [name |-> "Error: medication details not found", med_code |-> NoConcept,
          reads |-> <<>>, selected |-> FALSE, raised |-> FALSE]

\* The fields of a result: name is the string returned, med_code the local
\* variable med_code when the function returned, reads the medication ids
\* read through the client handle, selected whether _med_name was applied,
\* raised whether an exception left the function.
_get_med_name(p, smart, reply) ==
    IF p.null
    THEN [name |-> "Invalid prescription data", med_code |-> NoConcept,
          reads |-> <<>>, selected |-> FALSE, raised |-> FALSE]
    ELSE IF ~p.medicationCodeableConcept.null
    THEN LET med_code == p.medicationCodeableConcept IN
         IF med_code.coding = <<>> /\ Truthy(med_code.text)
         THEN [name |-> med_code.text, med_code |-> med_code,
               reads |-> <<>>, selected |-> FALSE, raised |-> FALSE]
         ELSE [name |-> _med_name(med_code), med_code |-> med_code,
               reads |-> <<>>, selected |-> TRUE, raised |-> FALSE]
    ELSE IF /\ ~p.medicationReference.null
            /\ p.medicationReference.reference # <<>>
            /\ ~smart.null
    THEN LET r == _get_medication_by_ref(p.medicationReference.reference, smart, reply) IN
         IF r.raised
         THEN [name |-> None, med_code |-> NoConcept,
               reads |-> r.reads, selected |-> FALSE, raised |-> TRUE]
         ELSE IF ~r.code.null
         THEN [name |-> _med_name(r.code), med_code |-> r.code,
               reads |-> r.reads, selected |-> TRUE, raised |-> FALSE]
         ELSE [name |-> "Error: medication details not found", med_code |-> NoConcept,
               reads |-> r.reads, selected |-> FALSE, raised |-> FALSE]
    ELSE [name |-> "Error: medication details not found", med_code |-> NoConcept,
          reads |-> <<>>, selected |-> FALSE, raised |-> FALSE]

NoWorld == [reply |-> ReadFails]

NoOut ==
    [name |-> None, med_code |-> NoConcept, reads |-> <<>>,
     selected |-> FALSE, raised |-> FALSE]

--------------------------------------------------------------------------
(* The resolver's calls: the arguments are drawn in InitResolver. What      *)
(* Medication.read answers is drawn only for a call that reads.             *)

CallGetMedName ==
    /\ pc = "start"
    /\ LET probe == _get_med_name(prescription, smart_client, ReadFails) IN
           \E reply \in (IF probe.reads = <<>> THEN {ReadFails} ELSE Replies) :
               /\ out' = _get_med_name(prescription, smart_client, reply)
               /\ world' = [reply |-> reply]
    /\ pc' = "get_med_name"
    /\ UNCHANGED <<prescription, smart_client, session, route, request, response, calls>>

CallMedName ==
    /\ pc = "start"
    /\ out' = [name |-> _med_name(prescription.medicationCodeableConcept),
               med_code |-> prescription.medicationCodeableConcept,
               reads |-> <<>>, selected |-> TRUE, raised |-> FALSE]
    /\ world' = NoWorld
    /\ pc' = "med_name"
    /\ UNCHANGED <<prescription, smart_client, session, route, request, response, calls>>

--------------------------------------------------------------------------
(* The session and the client handle *)

PatientIds == {None, "p1"}

NoState == [null |-> TRUE, ready |-> FALSE, patient_id |-> None]

State == [null : {FALSE}, ready : BOOLEAN, patient_id : PatientIds]

NoHandle == [null |-> TRUE, ready |-> FALSE, patient_id |-> None, server |-> FALSE]

api_base == "https://launch.smarthealthit.org/v/r4/fhir"

_save_state(state) == state

_get_smart(sess) ==
    IF ~sess.null
    THEN [null |-> FALSE, ready |-> sess.ready, patient_id |-> sess.patient_id,
          server |-> TRUE]
    ELSE IF Truthy(api_base)
    THEN [null |-> FALSE, ready |-> FALSE, patient_id |-> None, server |-> TRUE]
    ELSE NoHandle

\* The state blob the handle hands to its save callback.
StateOf(smart) == [null |-> FALSE, ready |-> smart.ready, patient_id |-> smart.patient_id]

NoCalls ==
    [constructed |-> 0, prepare |-> 0, reset_patient |-> 0, handle_callback |-> <<>>,
     reads |-> <<>>]

--------------------------------------------------------------------------
(* Requests and responses *)

Url(path, code, state) == [path |-> path, code |-> code, state |-> state]

CallbackUrls ==
    {Url("/fhir-app/", None, None), Url("/fhir-app/", "", "s1"),
     Url("/fhir-app/", None, "s1"), Url("/fhir-app/", "abc", "s1"),
     Url("/fhir-app/", "abc", None)}

Frag(tag, text, items) == [tag |-> tag, text |-> text, items |-> items]

Page(body) == [kind |-> "page", location |-> None, body |-> body]

redirect(location) == [kind |-> "redirect", location |-> location, body |-> <<>>]

NoResponse == [kind |-> "none", location |-> None, body |-> <<>>]

--------------------------------------------------------------------------
(* What the client handle answers during one request to the home page *)

NoPatient == [null |-> TRUE, name_null |-> TRUE, name |-> <<>>]

\* smart.patient: None, or a resource whose name is None, [] or a list of names
Patients ==
    {NoPatient}
        \cup [null : {FALSE}, name_null : {TRUE}, name : {<<>>}]
        \cup [null : {FALSE}, name_null : {FALSE}, name : {<<>>, <<[text |-> "Jane Doe"]>>}]

AuthorizeUrls == {None, "https://launch.smarthealthit.org/authorize"}

SamplePrescriptions ==
    {[null |-> FALSE,
      medicationCodeableConcept |->
          [null |-> FALSE, text |-> None,
           coding |-> <<[system |-> "http://snomed.info/sct", display |-> "Tylenol"],
                        [system |-> RXNORM, display |-> "Aspirin"]>>],
      medicationReference |-> NoReference],
     [null |-> FALSE,
      medicationCodeableConcept |->
          [null |-> FALSE, text |-> "Aspirin 81mg", coding |-> <<>>],
      medicationReference |-> NoReference],
     [null |-> FALSE,
      medicationCodeableConcept |-> NoConcept,
      medicationReference |-> [null |-> FALSE, reference |-> <<"m", "/", "m">>]]}

SampleReplies ==
    {ReadFails,
     [raises |-> FALSE, code |-> NoConcept],
     [raises |-> FALSE,
      code |-> [null |-> FALSE, text |-> "",
                coding |-> <<[system |-> RXNORM, display |-> "Tylenol"]>>]]}

NoSearch == [raises |-> TRUE, resources |-> <<>>]

\* MedicationRequest.where(...).perform_resources(server): raises, or a list
Searches ==
    {NoSearch}
        \cup [raises : {FALSE}, resources : SeqUpTo(SamplePrescriptions, MaxPres)]

\* The handle is asked for its authorization URL on the authorize branch only,
\* and for prescriptions and medications on the authorized branch only.
IndexEnv(authorized) ==
    IF authorized
    THEN [authorize_url : {None}, authorize_raises : {FALSE}, saves : {FALSE},
          search : Searches, reply : SampleReplies]
    ELSE [authorize_url : AuthorizeUrls, authorize_raises : BOOLEAN, saves : BOOLEAN,
          search : {NoSearch}, reply : {ReadFails}]

\* smart.human_name(name): the library's rendering of a name object
human_name(name) == name.text

--------------------------------------------------------------------------
(* The route handlers. Each returns the response, the session it leaves and *)
(* the calls it made on the client handle.                                  *)

_get_prescriptions(smart, search) ==
    IF smart.null \/ ~Truthy(smart.patient_id) THEN <<>>
    ELSE IF search.raises THEN <<>>
    ELSE search.resources

ApplicationError ==
    Page(<<Frag("h1", "Application Error", <<>>), Frag("reset_link", "/reset", <<>>)>>)

\* lines 155-159
patient_name(patient) ==
    IF ~patient.null /\ patient.name # <<>>
    THEN human_name(patient.name[1])
    ELSE "Unknown Patient"

\* Variant: the list is rendered without testing that it has entries.
prescriptions_body_untested(pres, med_names) ==
    Frag("prescriptions", None, med_names)

\* lines 164-171
prescriptions_body(pres, med_names) ==
    IF pres # <<>>
    THEN IF med_names # <<>>
         THEN Frag("prescriptions", None, med_names)
         ELSE Frag("no_names", None, <<>>)
    ELSE Frag("no_prescriptions", None, <<>>)

\* lines 176-181
authorize_body(auth_url) ==
    (IF Truthy(auth_url)
     THEN <<Frag("authorize_link", auth_url, <<>>)>>
     ELSE <<Frag("no_authorize_url", None, <<>>)>>)
        \o <<Frag("reset_link", "/reset", <<>>)>>

\* smart.prepare() is called in a try block when the patient's name is None;
\* whether it raises changes nothing the handler does afterwards.
index(sess, patient, env) ==
    LET smart == _get_smart(sess)
        hello == <<Frag("h1", "Hello", <<>>)>>
        made  == [NoCalls EXCEPT !.constructed = 1]
    IN
    IF smart.null
    THEN [response |-> Page(hello \o <<Frag("client_error", None, <<>>)>>),
          session |-> sess, calls |-> made]
    ELSE IF smart.ready /\ ~patient.null
    THEN LET pres == _get_prescriptions(smart, env.search)
             meds == [i \in 1..Len(pres) |-> _get_med_name(pres[i], smart, env.reply)]
             med_names == [i \in 1..Len(pres) |-> meds[i].name]
             done == [made EXCEPT !.prepare = IF patient.name_null THEN 1 ELSE 0,
                                  !.reads = [i \in 1..Len(pres) |-> meds[i].reads]]
         IN  IF \E i \in 1..Len(pres) : meds[i].raised
             THEN [response |-> ApplicationError, session |-> sess, calls |-> done]
             ELSE [response |->
                       Page(hello
                            \o <<Frag("authorized", patient_name(patient),
                                      <<smart.patient_id>>)>>
                            \o <<prescriptions_body(pres, med_names)>>
                            \o <<Frag("logout_link", "/logout", <<>>)>>),
                   session |-> sess, calls |-> done]
    ELSE IF env.authorize_raises
    THEN [response |-> ApplicationError, session |-> sess, calls |-> made]
    ELSE [response |-> Page(hello \o authorize_body(env.authorize_url)),
          session |-> IF env.saves THEN _save_state(StateOf(smart)) ELSE sess,
          calls |-> made]

\* Variant: the authorization code is not tested.
callback_code_unchecked(sess, url, env) ==
    LET smart == _get_smart(sess)
        made  == [NoCalls EXCEPT !.constructed = 1]
    IN
    IF smart.null
    THEN [response |-> Page(<<Frag("h1", "Error", <<>>)>>),
          session |-> sess, calls |-> made]
    ELSE IF env.raises
    THEN [response |->
              Page(<<Frag("h1", "Authorization Error", <<>>),
                     Frag("p", "exception", <<>>),
                     Frag("start_over_link", "/", <<>>)>>),
          session |-> sess,
          calls |-> [made EXCEPT !.handle_callback = <<url>>]]
    ELSE [response |-> redirect("/"),
          session |-> _save_state(env.state),
          calls |-> [made EXCEPT !.handle_callback = <<url>>]]

\* env.raises: smart.handle_callback raises; env.state: the state it saves
callback(sess, url, env) ==
    LET smart == _get_smart(sess)
        made  == [NoCalls EXCEPT !.constructed = 1]
    IN
    IF smart.null
    THEN [response |-> Page(<<Frag("h1", "Error", <<>>)>>),
          session |-> sess, calls |-> made]
    ELSE IF ~Truthy(url.code)
    THEN [response |->
              Page(<<Frag("h1", "Authorization Error", <<>>),
                     Frag("p", "Authorization code is missing.", <<>>)>>),
          session |-> sess, calls |-> made]
    ELSE IF env.raises
    THEN [response |->
              Page(<<Frag("h1", "Authorization Error", <<>>),
                     Frag("p", "exception", <<>>),
                     Frag("start_over_link", "/", <<>>)>>),
          session |-> sess,
          calls |-> [made EXCEPT !.handle_callback = <<url>>]]
    ELSE [response |-> redirect("/"),
          session |-> _save_state(env.state),
          calls |-> [made EXCEPT !.handle_callback = <<url>>]]

\* smart.reset_patient(): the handle forgets the patient and saves its state
reset_patient(smart) == _save_state(StateOf([smart EXCEPT !.patient_id = None]))

\* session.pop('state', None)
pop(sess) == NoState

\* Variant: the session is cleared before the handle resets the patient.
_logout_pop_first(sess) ==
    IF ~sess.null
    THEN LET smart == _get_smart(sess)
             saved == IF ~smart.null THEN reset_patient(smart) ELSE pop(sess)
         IN  [session |-> saved,
              calls |-> [NoCalls EXCEPT !.constructed = 1,
                                        !.reset_patient = IF ~smart.null THEN 1 ELSE 0]]
    ELSE [session |-> sess, calls |-> NoCalls]

_logout(sess) ==
    IF ~sess.null
    THEN LET smart == _get_smart(sess)
             saved == IF ~smart.null THEN reset_patient(smart) ELSE sess
         IN  [session |-> pop(saved),
              calls |-> [NoCalls EXCEPT !.constructed = 1,
                                        !.reset_patient = IF ~smart.null THEN 1 ELSE 0]]
    ELSE [session |-> sess, calls |-> NoCalls]

_reset(sess) == [session |-> pop(sess), calls |-> NoCalls]

--------------------------------------------------------------------------
(* One action per route *)

HomeUrl == Url("/", None, None)

ResolverIdle == UNCHANGED <<pc, prescription, smart_client, out>>

Index ==
    /\ pc = "idle"
    /\ \E patient \in Patients :
           LET smart == _get_smart(session) IN
           /\ ~patient.null => smart.ready /\ Truthy(smart.patient_id)
           /\ \E env \in IndexEnv(smart.ready /\ ~patient.null) :
                  LET r == index(session, patient, env) IN
                      /\ response' = r.response
                      /\ session' = r.session
                      /\ calls' = r.calls
                      /\ world' = [patient |-> patient, env |-> env]
    /\ route' = "index"
    /\ request' = HomeUrl
    /\ ResolverIdle

Callback ==
    /\ pc = "idle"
    /\ \E url \in CallbackUrls, env \in [raises : BOOLEAN, state : State] :
           LET r == callback(session, url, env) IN
               /\ response' = r.response
               /\ session' = r.session
               /\ calls' = r.calls
               /\ request' = url
               /\ world' = env
    /\ route' = "callback"
    /\ ResolverIdle

Logout ==
    /\ pc = "idle"
    /\ LET r == _logout(session) IN
           /\ session' = r.session
           /\ calls' = r.calls
    /\ response' = redirect("/")
    /\ world' = NoWorld
    /\ route' = "logout"
    /\ request' = Url("/logout", None, None)
    /\ ResolverIdle

Reset ==
    /\ pc = "idle"
    /\ LET r == _reset(session) IN
           /\ session' = r.session
           /\ calls' = r.calls
    /\ response' = redirect("/")
    /\ world' = NoWorld
    /\ route' = "reset"
    /\ request' = Url("/reset", None, None)
    /\ ResolverIdle

--------------------------------------------------------------------------
(* Specifications *)

Init ==
    /\ pc = "idle"
    /\ prescription = NoPrescription
    /\ smart_client = NoClient
    /\ out = NoOut
    /\ session = NoState
    /\ route = "none"
    /\ request = HomeUrl
    /\ response = NoResponse
    /\ calls = NoCalls
    /\ world = NoWorld

Next == Index \/ Callback \/ Logout \/ Reset

Spec == Init /\ [][Next]_vars

InitResolver ==
    /\ pc = "start"
    /\ prescription \in Prescription \cup {NoPrescription}
    /\ smart_client \in Client \cup {NoClient}
    /\ out = NoOut
    /\ session = NoState
    /\ route = "none"
    /\ request = HomeUrl
    /\ response = NoResponse
    /\ calls = NoCalls
    /\ world = NoWorld

NextResolver == CallGetMedName \/ CallMedName

SpecResolver == InitResolver /\ [][NextResolver]_vars

--------------------------------------------------------------------------
(* Properties of the resolver, checked under SpecResolver *)

Labelled(c) == c.display # None /\ c.display # ""

RxNormLabelled(c) == c.system = RXNORM /\ Labelled(c)

Inline == prescription.medicationCodeableConcept

NotFound == "Error: medication details not found"

\* C1: whatever the prescription and the client handle, _get_med_name returns
\* a non-empty string: never None, never "", and no exception.
C1_NameNeverEmpty ==
    pc = "get_med_name" =>
        /\ ~out.raised
        /\ out.name # None
        /\ out.name # ""

\* A medication was read, it has no label and no text, and the last fallback
\* was returned.
C1_Witness ==
    /\ pc = "get_med_name"
    /\ out.reads # <<>>
    /\ ~out.med_code.null
    /\ out.med_code.text = ""
    /\ out.name = "Unnamed Medication"

\* C2: for a concept with an RxNorm coding that has a label, _med_name returns
\* the label of the first such coding, whatever precedes it and whatever the
\* free text is.
C2_FirstRxNormLabel ==
    (/\ pc = "med_name"
     /\ ~Inline.null
     /\ \E i \in 1..Len(Inline.coding) : RxNormLabelled(Inline.coding[i]))
        => \E i \in 1..Len(Inline.coding) :
               /\ RxNormLabelled(Inline.coding[i])
               /\ \A j \in 1..(i - 1) : ~RxNormLabelled(Inline.coding[j])
               /\ out.name = Inline.coding[i].display

\* A labelled coding of another system comes first and free text is present;
\* the RxNorm label wins.
C2_Witness ==
    /\ pc = "med_name"
    /\ ~Inline.null
    /\ Len(Inline.coding) = 2
    /\ Inline.coding[1] = [system |-> "http://snomed.info/sct", display |-> "Tylenol"]
    /\ Inline.coding[2] = [system |-> RXNORM, display |-> "Aspirin"]
    /\ Inline.text = "Aspirin 81mg"
    /\ out.name = "Aspirin"

\* C3: for a concept with no labelled RxNorm coding but some labelled coding,
\* _med_name returns the label of the first labelled coding in list order.
C3_FirstAnyLabel ==
    (/\ pc = "med_name"
     /\ ~Inline.null
     /\ \A i \in 1..Len(Inline.coding) : ~RxNormLabelled(Inline.coding[i])
     /\ \E i \in 1..Len(Inline.coding) : Labelled(Inline.coding[i]))
        => \E i \in 1..Len(Inline.coding) :
               /\ Labelled(Inline.coding[i])
               /\ \A j \in 1..(i - 1) : ~Labelled(Inline.coding[j])
               /\ out.name = Inline.coding[i].display

\* An RxNorm coding with an empty label is skipped, the free text is ignored.
C3_Witness ==
    /\ pc = "med_name"
    /\ ~Inline.null
    /\ Len(Inline.coding) = 2
    /\ Inline.coding[1] = [system |-> RXNORM, display |-> ""]
    /\ Inline.coding[2] = [system |-> "http://snomed.info/sct", display |-> "Tylenol"]
    /\ Inline.text = "Aspirin 81mg"
    /\ out.name = "Tylenol"

\* C4: for a resolved concept none of whose codings has a label, the resolver
\* returns the free text when it is non-empty and "Unnamed Medication" otherwise.
C4_TextThenSentinel ==
    (/\ pc \in {"get_med_name", "med_name"}
     /\ ~out.med_code.null
     /\ \A i \in 1..Len(out.med_code.coding) : ~Labelled(out.med_code.coding[i]))
        => out.name = IF out.med_code.text \notin {None, ""}
                      THEN out.med_code.text
                      ELSE "Unnamed Medication"

\* The concept was read through the handle, has codings without labels, and
\* its free text was returned.
C4_Witness ==
    /\ pc = "get_med_name"
    /\ out.reads # <<>>
    /\ ~out.med_code.null
    /\ out.med_code.coding # <<>>
    /\ out.med_code.text = "Aspirin 81mg"
    /\ out.name = "Aspirin 81mg"

\* C5: an inline concept with free text and no codings yields exactly that
\* text, without label selection and without reading a medication.
C5_TextOnlyShortcut ==
    (/\ pc = "get_med_name"
     /\ ~prescription.null
     /\ ~Inline.null
     /\ Inline.coding = <<>>
     /\ Inline.text \notin {None, ""})
        => /\ out.name = Inline.text
           /\ ~out.selected
           /\ out.reads = <<>>
           /\ ~out.raised

\* The prescription also carries a usable reference and a handle is available.
C5_Witness ==
    /\ pc = "get_med_name"
    /\ ~prescription.null
    /\ Inline = [null |-> FALSE, coding |-> <<>>, text |-> "Aspirin 81mg"]
    /\ prescription.medicationReference.reference = <<"m", "/", "m">>
    /\ ~smart_client.null
    /\ smart_client.server
    /\ out.name = "Aspirin 81mg"

\* The four ways C6 names in which no concept is resolved.
Unresolvable ==
    /\ ~prescription.null
    /\ Inline.null
    /\ \/ prescription.medicationReference.null
       \/ smart_client.null
       \/ \A i \in 1..Len(prescription.medicationReference.reference) :
              prescription.medicationReference.reference[i] # "/"
       \/ out.reads # <<>> /\ world.reply.raises

\* C6: when no concept can be resolved for a present prescription (no inline
\* concept and no reference, no client handle, no '/' in the reference, or a
\* read that raises), _get_med_name returns the not-found sentinel, which is
\* not the unnamed-medication sentinel, and raises nothing.
C6_NotFoundSentinel ==
    (pc = "get_med_name" /\ Unresolvable)
        => /\ out.name = NotFound
           /\ out.name # "Unnamed Medication"
           /\ ~out.raised

\* The referenced medication was read and the read raised.
C6_Witness ==
    /\ pc = "get_med_name"
    /\ ~prescription.null
    /\ out.reads # <<>>
    /\ world.reply.raises
    /\ out.name = NotFound

\* C10: with an inline concept present no medication is read, whatever the
\* reference and the handle; the name comes from the inline concept alone.
C10_InlineNeverReads ==
    (pc = "get_med_name" /\ ~prescription.null /\ ~Inline.null)
        => /\ out.reads = <<>>
           /\ out.med_code = Inline
           /\ out.name = _med_name(Inline)
           /\ ((/\ \A i \in 1..Len(Inline.coding) : ~Labelled(Inline.coding[i])
                /\ Inline.text \in {None, ""})
                   => out.name = "Unnamed Medication")

\* An inline concept without label or text, next to a usable reference and an
\* available handle.
C10_Witness ==
    /\ pc = "get_med_name"
    /\ ~prescription.null
    /\ ~Inline.null
    /\ Inline.text = None
    /\ Len(Inline.coding) = 1
    /\ prescription.medicationReference.reference = <<"m", "/", "m">>
    /\ ~smart_client.null
    /\ smart_client.server
    /\ out.name = "Unnamed Medication"

--------------------------------------------------------------------------
(* Properties of the routes, checked under Spec *)

HasFrag(f) == \E i \in 1..Len(response.body) : response.body[i] = f

\* The handle of the last request. A request to the home page leaves the
\* readiness and the patient id held in the session as they were.
Served == _get_smart(session)

\* The patient's name followed by the resolved medication names, or by the
\* no-prescriptions message when the search found nothing or failed.
AuthorizedPage ==
    LET found == IF world.env.search.raises THEN <<>> ELSE world.env.search.resources
        names == [i \in 1..Len(found) |->
                      _get_med_name(found[i], Served, world.env.reply).name]
        shown == IF world.patient.null \/ world.patient.name = <<>>
                 THEN "Unknown Patient"
                 ELSE world.patient.name[1].text
    IN  /\ response.kind = "page"
        /\ \E i \in 1..(Len(response.body) - 1) :
               /\ response.body[i] = Frag("authorized", shown, <<Served.patient_id>>)
               /\ response.body[i + 1] =
                      IF found = <<>>
                      THEN Frag("no_prescriptions", None, <<>>)
                      ELSE Frag("prescriptions", None, names)

\* C7 as stated: readiness alone decides the branch; an unready handle gets the
\* authorization link, a ready one the patient name and the medication names.
C7_ReadinessAloneDecides ==
    route = "index" =>
        /\ ~Served.ready =>
               HasFrag(Frag("authorize_link", world.env.authorize_url, <<>>))
        /\ Served.ready => AuthorizedPage

\* C7, amended: the authorized page is rendered when the handle is ready and
\* has a patient. Otherwise the page holds the authorization link when the
\* handle gives a non-empty authorization URL, a message that no URL could be
\* obtained when it gives none, and the application error page when asking
\* for it raises.
C7_ReadyAndPatientDecide ==
    route = "index" =>
        IF Served.ready /\ ~world.patient.null
        THEN AuthorizedPage
        ELSE /\ response.kind = "page"
             /\ \A i \in 1..Len(response.body) : response.body[i].tag # "authorized"
             /\ IF world.env.authorize_raises
                THEN HasFrag(Frag("h1", "Application Error", <<>>))
                ELSE IF world.env.authorize_url \notin {None, ""}
                THEN HasFrag(Frag("authorize_link", world.env.authorize_url, <<>>))
                ELSE HasFrag(Frag("no_authorize_url", None, <<>>))

\* A ready handle with a nameless patient whose search found nothing.
C7_Witness ==
    /\ route = "index"
    /\ Served.ready
    /\ ~world.patient.null
    /\ world.patient.name = <<>>
    /\ ~world.env.search.raises
    /\ world.env.search.resources = <<>>
    /\ HasFrag(Frag("authorized", "Unknown Patient", <<"p1">>))
    /\ HasFrag(Frag("no_prescriptions", None, <<>>))

\* C8: on the callback route a missing (absent or empty) code gives an error
\* page and the callback processor is not invoked; with a code the full URL is
\* handed to the processor exactly once, and the response is a redirect to
\* Home, or the Authorization Error page with a start-over link when the
\* processor raises.
C8_CallbackRoute ==
    route = "callback" =>
        IF request.code \in {None, ""}
        THEN /\ response.kind = "page"
             /\ HasFrag(Frag("h1", "Authorization Error", <<>>))
             /\ calls.handle_callback = <<>>
        ELSE /\ calls.handle_callback = <<request>>
             /\ IF world.raises
                THEN /\ response.kind = "page"
                     /\ HasFrag(Frag("h1", "Authorization Error", <<>>))
                     /\ HasFrag(Frag("start_over_link", "/", <<>>))
                ELSE response = redirect("/")

\* The processor was invoked with a code and raised.
C8_Witness ==
    /\ route = "callback"
    /\ request.code = "abc"
    /\ world.raises
    /\ calls.handle_callback = <<request>>
    /\ HasFrag(Frag("start_over_link", "/", <<>>))

\* C9: a Reset or Logout request ends with no state in the session and a
\* redirect to Home. Reset makes no call on the client handle; Logout has the
\* handle reset the patient exactly when a state was present before, and the
\* state the handle saves while doing so is gone afterwards.
C9_LogoutResetClearSession ==
    [][/\ route' = "reset" =>
              /\ session' = NoState
              /\ response' = redirect("/")
              /\ calls' = NoCalls
       /\ route' = "logout" =>
              /\ session' = NoState
              /\ response' = redirect("/")
              /\ calls'.reset_patient = IF session.null THEN 0 ELSE 1
              /\ calls'.handle_callback = <<>>]_vars

\* A logout that found a state and had the handle reset the patient.
C9_Witness ==
    /\ route = "logout"
    /\ calls.reset_patient = 1
    /\ session = NoState

====
